---- MODULE Spec2Model ----
(***************************************************************************)
(* Model of joined_freqs_from_bam.py: main() validates the request and     *)
(* calls joined_counts(), which scans the fetched alignment records,       *)
(* filters them, records the base each logical read shows at each          *)
(* requested position, intersects the observers of all positions and       *)
(* tallies the joint keys.                                                 *)
(*                                                                         *)
(* Python strings (query names, query sequences, joint keys) are sequences *)
(* of one-character strings.  Python dicts are functions whose DOMAIN is   *)
(* the key set; the empty dict is the empty function <<>>.                 *)
(***************************************************************************)
EXTENDS Integers, Sequences, FiniteSets, TLC

\* ------------------------------------------------------------- bounds ----
\* Most records the fetch iterator yields in one run.
MaxRecords == 2
\* Most positions given in one request.
MaxNargs == 2

\* ------------------------------------------------------ input universe ----
\* Python's None in an aligned pair.
None == -1

\* default of --min-mq / of the min_mq parameter
min_mq == 13

\* One-based positions the command line may be given (0 is not positive).
OneBased == {0, 1, 2}
\* Zero-based positions a direct caller of joined_counts may pass.
ZeroBased == {-1, 0, 1}

\* The flag attributes and mapping quality of a record.
Flags ==
    [is_duplicate : BOOLEAN, is_paired : BOOLEAN, is_proper_pair : BOOLEAN,
     is_qcfail : BOOLEAN, is_secondary : BOOLEAN, mapq : {min_mq - 1, min_mq}]

\* Query names: the mates r/1 and r/2, a two-character name that is only a
\* suffix (its read id is the empty string), a two-character name without
\* separator, and a one-character name.
QNames ==
    { <<"r", "/", "1">>, <<"r", "/", "2">>, <<"#", "1">>, <<"r", "1">>, <<"x">> }

\* Alignments: aligned_pairs is a list of (qpos, rpos) with None for a gap,
\* query the read's bases indexed by qpos.  A match over 0..1, a read on
\* position 1 only, a deletion at position 1 and an insertion between
\* positions 0 and 1.
Alignments ==
    { [aligned_pairs |-> << <<0, 0>>, <<1, 1>> >>, query |-> <<"A", "C">>],
      [aligned_pairs |-> << <<0, 1>> >>, query |-> <<"A">>],
      [aligned_pairs |-> << <<0, 0>>, <<None, 1>>, <<1, 2>> >>, query |-> <<"A", "C">>],
      [aligned_pairs |-> << <<0, 0>>, <<1, None>>, <<2, 1>> >>, query |-> <<"C", "A", "A">>] }

\* All sequences over S of length lo..hi.
SeqsOf(S, lo, hi) == UNION { [1..n -> S] : n \in lo..hi }

\* ------------------------------------------------------------- helpers ----
\* d[k] = v on a dict
DictSet(d, k, v) == [x \in (DOMAIN d) \cup {k} |-> IF x = k THEN v ELSE d[x]]

\* d.get(k, dflt)
DictGet(d, k, dflt) == IF k \in DOMAIN d THEN d[k] ELSE dflt

SeqMin(s) == CHOOSE m \in {s[i] : i \in 1..Len(s)} : \A i \in 1..Len(s) : m <= s[i]
SeqMax(s) == CHOOSE m \in {s[i] : i \in 1..Len(s)} : \A i \in 1..Len(s) : m >= s[i]

\* --------------------------------------------------------------- state ----
VARIABLES
    entry,             \* "main": run from the command line; "api": joined_counts called directly
    bam_exists,        \* os.path.exists(args.bam)
    request,           \* args.positions (one-based) or the positions argument (zero-based)
    pc,                \* where the program is
    positions,         \* the zero-based positions list inside main / joined_counts
    num_dups, num_anomalous, num_qcfail, num_secondary, num_below_mq_min,
    pos_overlap,       \* position -> (read id -> base)
    overlapping_all,   \* read ids seen at all positions
    counts,            \* joint key -> count
    exception,         \* the uncaught exception, "none" while there is none
    exit_code,         \* the process's exit status, -1 while it runs
    alnread,           \* history: flags of the record of the last iteration (SpecTraced)
    nfetched,          \* history: records the fetch iterator has yielded
    accepted           \* history: the records that passed all filters, in stream order

vars == <<entry, bam_exists, request, pc, positions, num_dups, num_anomalous,
          num_qcfail, num_secondary, num_below_mq_min, pos_overlap,
          overlapping_all, counts, exception, exit_code, alnread, nfetched, accepted>>

counters == <<num_dups, num_anomalous, num_qcfail, num_secondary, num_below_mq_min>>

\* assert len(positions)>=2 and min(positions)>=0
RequestOk(ps) == Len(ps) >= 2 /\ SeqMin(ps) >= 0

NoRecord ==
    [is_duplicate |-> FALSE, is_paired |-> FALSE, is_proper_pair |-> FALSE,
     is_qcfail |-> FALSE, is_secondary |-> FALSE, mapq |-> min_mq]

Init ==
    /\ entry \in {"main", "api"}
    /\ bam_exists \in BOOLEAN
    /\ \/ entry = "main" /\ request \in SeqsOf(OneBased, 1, MaxNargs)
       \/ /\ entry = "api" /\ bam_exists
          /\ request \in {r \in SeqsOf(ZeroBased, 0, MaxNargs) : ~RequestOk(r)}
    /\ pc = IF entry = "main" THEN "main" ELSE "joined_counts"
    /\ positions = IF entry = "main" THEN <<>> ELSE request
    /\ num_dups = 0 /\ num_anomalous = 0 /\ num_qcfail = 0
    /\ num_secondary = 0 /\ num_below_mq_min = 0
    /\ pos_overlap = <<>>
    /\ overlapping_all = {}
    /\ counts = <<>>
    /\ exception = "none"
    /\ exit_code = -1
    /\ alnread = NoRecord
    /\ nfetched = 0
    /\ accepted = <<>>

\* ---------------------------------------------------------------- main ----
\* positions = [x-1 for x in args.positions]
ToZeroBased(args) == [i \in 1..Len(args) |-> args[i] - 1]

\* main's own precondition checks on the converted list
\* (variant: the length is compared with 1)
TooFewPositions_One(ps) == Len(ps) < 1

TooFewPositions(ps) == Len(ps) < 2
NegativePosition(ps) == \E i \in 1..Len(ps) : ps[i] < 0

\* main() up to the call of joined_counts: exits with 1 on a missing file, on
\* fewer than two positions and on a position below 1.
Main ==
    /\ pc = "main"
    /\ LET ps == ToZeroBased(request) IN
       IF ~bam_exists
       THEN /\ pc' = "exit" /\ exit_code' = 1
            /\ UNCHANGED positions
       ELSE /\ positions' = ps
            /\ IF TooFewPositions(ps) \/ NegativePosition(ps)
               THEN pc' = "exit" /\ exit_code' = 1
               ELSE pc' = "joined_counts" /\ UNCHANGED exit_code
    /\ UNCHANGED <<entry, bam_exists, request, counters, pos_overlap,
                   overlapping_all, counts, exception, alnread, nfetched, accepted>>

\* ------------------------------------------------------- joined_counts ----
\* The process dies with status 1 on an uncaught exception.
Raise(exc) ==
    /\ pc' = "raised"
    /\ exception' = exc
    /\ exit_code' = IF entry = "main" THEN 1 ELSE exit_code

\* Entry of joined_counts: the assertion, then the counters and the empty map.
Enter ==
    /\ pc = "joined_counts"
    /\ IF RequestOk(positions)
       THEN pc' = "fetch" /\ UNCHANGED <<exception, exit_code>>
       ELSE Raise("AssertionError")
    /\ UNCHANGED <<entry, bam_exists, request, positions, counters, pos_overlap,
                   overlapping_all, counts, alnread, nfetched, accepted>>

\* --- the filter of one record (the five checks, in the order of the code)
\* (variant: the secondary check placed before the qc-fail check)
RejectReason_Swapped(r) ==
    IF r.is_duplicate THEN "duplicate"
    ELSE IF r.is_paired /\ ~r.is_proper_pair THEN "anomalous_pair"
    ELSE IF r.is_secondary THEN "secondary"
    ELSE IF r.is_qcfail THEN "qc_fail"
    ELSE IF r.mapq < min_mq THEN "low_mapping_quality"
    ELSE "accept"

RejectReason(r) ==
    IF r.is_duplicate THEN "duplicate"
    ELSE IF r.is_paired /\ ~r.is_proper_pair THEN "anomalous_pair"
    ELSE IF r.is_qcfail THEN "qc_fail"
    ELSE IF r.is_secondary THEN "secondary"
    ELSE IF r.mapq < min_mq THEN "low_mapping_quality"
    ELSE "accept"

\* num_xxx += 1 in the branch of the check that fired
\* (variant: the qc-fail branch skips the record without counting it)
Count_NoQcFail(n, tag, reason) == IF reason = tag /\ tag # "qc_fail" THEN n + 1 ELSE n

Count(n, tag, reason) == IF reason = tag THEN n + 1 ELSE n

\* (variant: "if qpos and rpos", which also drops the offsets that are 0)
PosNtMap_Truthy(a) ==
    LET ap == a.aligned_pairs
        kept == {i \in 1..Len(ap) : /\ ap[i][1] # None /\ ap[i][1] # 0
                                    /\ ap[i][2] # None /\ ap[i][2] # 0}
        last(rpos) == CHOOSE i \in kept :
                          /\ ap[i][2] = rpos
                          /\ \A j \in kept : ap[j][2] = rpos => j <= i
    IN  [rpos \in {ap[i][2] : i \in kept} |-> a.query[ap[last(rpos)][1] + 1]]

\* --- pos_nt_map: reference position -> query base, over the aligned pairs
\* in which both offsets are defined; dict() keeps the last pair of a key.
PosNtMap(a) ==
    LET ap == a.aligned_pairs
        kept == {i \in 1..Len(ap) : ap[i][1] # None /\ ap[i][2] # None}
        last(rpos) == CHOOSE i \in kept :
                          /\ ap[i][2] = rpos
                          /\ \A j \in kept : ap[j][2] = rpos => j <= i
    IN  [rpos \in {ap[i][2] : i \in kept} |-> a.query[ap[last(rpos)][1] + 1]]

\* --- the read id shared by the mates of a pair
MateSeparators == {".", "/", "#"}

\* qname[-2] raises IndexError on a name shorter than two characters
QnameIndexError(qname) == Len(qname) < 2

\* (variant: only the last character is stripped)
ReadIdBase_StripOne(qname) ==
    IF qname[Len(qname) - 1] \in MateSeparators
    THEN SubSeq(qname, 1, Len(qname) - 1)
    ELSE qname

ReadIdBase(qname) ==
    IF qname[Len(qname) - 1] \in MateSeparators
    THEN SubSeq(qname, 1, Len(qname) - 2)
    ELSE qname

\* (variant: a base already recorded for the read id is kept)
RECURSIVE RecordBases_KeepFirst(_, _, _, _, _)
RecordBases_KeepFirst(po, ps, i, rid, ntmap) ==
    IF i > Len(ps) THEN po
    ELSE LET pos == ps[i]
             old == DictGet(po, pos, <<>>)
         IN
         IF pos \in DOMAIN ntmap /\ rid \notin DOMAIN old
         THEN RecordBases_KeepFirst(DictSet(po, pos, DictSet(old, rid, ntmap[pos])),
                                    ps, i + 1, rid, ntmap)
         ELSE RecordBases_KeepFirst(po, ps, i + 1, rid, ntmap)

\* --- for pos in positions: pos_overlap[pos][read_id_base] = pos_nt_map[pos]
RECURSIVE RecordBases(_, _, _, _, _)
RecordBases(po, ps, i, rid, ntmap) ==
    IF i > Len(ps) THEN po
    ELSE LET pos == ps[i] IN
         IF pos \in DOMAIN ntmap
         THEN RecordBases(
                  DictSet(po, pos, DictSet(DictGet(po, pos, <<>>), rid, ntmap[pos])),
                  ps, i + 1, rid, ntmap)
         ELSE RecordBases(po, ps, i + 1, rid, ntmap)

\* sam.fetch(chrom, min(positions), max(positions)+1) yields the records whose
\* reference span meets the half-open range.
RefPositions(a) ==
    {a.aligned_pairs[i][2] : i \in {j \in 1..Len(a.aligned_pairs) : a.aligned_pairs[j][2] # None}}

InFetchRange(a, ps) ==
    \E r \in RefPositions(a) : SeqMin(ps) <= r /\ r < SeqMax(ps) + 1

\* One iteration of the loop over a fetched record with flags f.  Query name
\* and alignment are read only from a record that passes the filter.  seen is
\* what the history variable alnread keeps of the record.
FetchRecord(f, seen) ==
    LET reason == RejectReason(f) IN
    /\ alnread' = seen
    /\ nfetched' = nfetched + 1
    /\ num_dups' = Count(num_dups, "duplicate", reason)
    /\ num_anomalous' = Count(num_anomalous, "anomalous_pair", reason)
    /\ num_qcfail' = Count(num_qcfail, "qc_fail", reason)
    /\ num_secondary' = Count(num_secondary, "secondary", reason)
    /\ num_below_mq_min' = Count(num_below_mq_min, "low_mapping_quality", reason)
    /\ IF reason # "accept"
       THEN UNCHANGED <<pos_overlap, accepted, pc, exception, exit_code>>
       ELSE \E qname \in QNames, a \in Alignments :
              /\ InFetchRange(a, positions)
              /\ accepted' = Append(accepted,
                     [qname |-> qname, aligned_pairs |-> a.aligned_pairs,
                      query |-> a.query])
              /\ IF QnameIndexError(qname)
                 THEN Raise("IndexError") /\ UNCHANGED pos_overlap
                 ELSE /\ pos_overlap' = RecordBases(pos_overlap, positions, 1,
                                                    ReadIdBase(qname), PosNtMap(a))
                      /\ UNCHANGED <<pc, exception, exit_code>>
    /\ UNCHANGED <<entry, bam_exists, request, positions, overlapping_all, counts>>

\* The loop takes the next record from the fetch iterator.
Fetch ==
    /\ pc = "fetch"
    /\ nfetched < MaxRecords
    /\ \E f \in Flags : FetchRecord(f, NoRecord)

\* The same step, with the record's flags kept in alnread.
FetchTraced ==
    /\ pc = "fetch"
    /\ nfetched < MaxRecords
    /\ \E f \in Flags : FetchRecord(f, f)

\* --- the read ids overlapping all positions
\* pos_overlap[pos] raises KeyError when no accepted record wrote at pos
PosKeyError(po, ps) == \E i \in 1..Len(ps) : ps[i] \notin DOMAIN po

RECURSIVE IntersectFrom(_, _, _, _)
IntersectFrom(acc, po, ps, i) ==
    IF i > Len(ps) THEN acc
    ELSE IntersectFrom(acc \cap DOMAIN po[ps[i]], po, ps, i + 1)

\* (variant: the fold over positions[1:] starts one position late)
OverlappingAll_SkipSecond(po, ps) == IntersectFrom(DOMAIN po[ps[1]], po, ps, 3)

OverlappingAll(po, ps) == IntersectFrom(DOMAIN po[ps[1]], po, ps, 2)

\* The fetch iterator is exhausted, the loop ends and the intersection is
\* taken; the loop variable is dead from here on.
Intersect ==
    /\ pc = "fetch"
    /\ alnread' = NoRecord
    /\ IF PosKeyError(pos_overlap, positions)
       THEN Raise("KeyError") /\ UNCHANGED overlapping_all
       ELSE /\ overlapping_all' = OverlappingAll(pos_overlap, positions)
            /\ pc' = "count"
            /\ UNCHANGED <<exception, exit_code>>
    /\ UNCHANGED <<entry, bam_exists, request, positions, counters, pos_overlap,
                   counts, nfetched, accepted>>

\* --- the joint counts
\* key = ''.join([pos_overlap[p][read_id] for p in positions])
\* (variant: the key is joined in the reverse of the request order)
JointKey_Reversed(po, ps, rid) == [i \in 1..Len(ps) |-> po[ps[Len(ps) + 1 - i]][rid]]

JointKey(po, ps, rid) == [i \in 1..Len(ps) |-> po[ps[i]][rid]]

\* (variant: counts[key] = 1, the previous count is not read)
RECURSIVE CountKeys_SetOne(_, _, _, _)
CountKeys_SetOne(c, rids, po, ps) ==
    IF rids = {} THEN c
    ELSE LET rid == CHOOSE x \in rids : TRUE
             key == JointKey(po, ps, rid)
         IN  CountKeys_SetOne(DictSet(c, key, 1), rids \ {rid}, po, ps)

\* for read_id in overlapping_all: counts[key] = counts.get(key, 0) + 1
RECURSIVE CountKeys(_, _, _, _)
CountKeys(c, rids, po, ps) ==
    IF rids = {} THEN c
    ELSE LET rid == CHOOSE x \in rids : TRUE
             key == JointKey(po, ps, rid)
         IN  CountKeys(DictSet(c, key, DictGet(c, key, 0) + 1), rids \ {rid}, po, ps)

\* The tally and the return of joined_counts.
Tally ==
    /\ pc = "count"
    /\ counts' = CountKeys(<<>>, overlapping_all, pos_overlap, positions)
    /\ pc' = "return"
    /\ UNCHANGED <<entry, bam_exists, request, positions, counters, pos_overlap,
                   overlapping_all, exception, exit_code, alnread, nfetched, accepted>>

\* main() after the call: the report is printed and the process ends normally.
Report ==
    /\ pc = "return"
    /\ entry = "main"
    /\ pc' = "exit"
    /\ exit_code' = 0
    /\ UNCHANGED <<entry, bam_exists, request, positions, counters, pos_overlap,
                   overlapping_all, counts, exception, alnread, nfetched, accepted>>

Next ==
    \/ Main
    \/ Enter
    \/ Fetch
    \/ Intersect
    \/ Tally
    \/ Report

Spec == Init /\ [][Next]_vars

\* The run of the command line on the one-based positions 1 and 2, with the
\* flags of each fetched record kept in alnread.
InitTraced == Init /\ entry = "main" /\ bam_exists /\ request = <<1, 2>>

NextTraced ==
    \/ Main
    \/ Enter
    \/ FetchTraced
    \/ Intersect
    \/ Tally
    \/ Report

SpecTraced == InitTraced /\ [][NextTraced]_vars

\* ===================================================== properties ========
\* --- vocabulary of the properties, stated on the state and the history ---

\* joined_counts has returned its table (to main or to a direct caller).
Returned == pc = "return" \/ (pc = "exit" /\ exit_code = 0)

\* The loop over the fetched records has run to its end.
Scanned == pc = "count" \/ Returned \/ (pc = "raised" /\ exception = "KeyError")

\* The observer map of a position: the read ids with a recorded base there.
Observers(pos) == IF pos \in DOMAIN pos_overlap THEN DOMAIN pos_overlap[pos] ELSE {}

Requested == {positions[i] : i \in 1..Len(positions)}

\* The joint key of a read id, in the order of the request.
KeyOf(rid) == [i \in 1..Len(positions) |-> pos_overlap[positions[i]][rid]]

RECURSIVE SumOver(_, _)
SumOver(f, keys) ==
    IF keys = {} THEN 0
    ELSE LET k == CHOOSE x \in keys : TRUE IN f[k] + SumOver(f, keys \ {k})

\* The logical read id a query name stands for: the name without its last
\* two characters when the last but one is a separator, else the name.
LogicalId(qname) ==
    LET n == Len(qname) IN
    IF n >= 2 /\ qname[n - 1] \in {".", "/", "#"}
    THEN [i \in 1..(n - 2) |-> qname[i]]
    ELSE qname

\* The record shows a base at reference position pos: some aligned pair
\* (q, pos) has both offsets.
Shows(rec, pos) ==
    \E i \in 1..Len(rec.aligned_pairs) :
        rec.aligned_pairs[i][2] = pos /\ rec.aligned_pairs[i][1] # None /\ pos # None

ShownBase(rec, pos) ==
    LET i == CHOOSE j \in 1..Len(rec.aligned_pairs) :
                 rec.aligned_pairs[j][2] = pos /\ rec.aligned_pairs[j][1] # None
    IN  rec.query[rec.aligned_pairs[i][1] + 1]

\* Accepted records, by stream index, whose name yields a read id.
Named == {k \in 1..Len(accepted) : Len(accepted[k].qname) >= 2}

\* The stream indexes of the accepted records of logical read rid that show
\* a base at pos.
Writers(rid, pos) ==
    {k \in Named : LogicalId(accepted[k].qname) = rid /\ Shows(accepted[k], pos)}

MaxOf(S) == CHOOSE m \in S : \A x \in S : x <= m

\* --- C1 -------------------------------------------------------------------
\* C1 (as claimed): when the scan is over and some requested position has an
\* empty observer map, joined_counts raises nothing and the table it returns
\* is empty.
C1_EmptyObserversGiveEmptyTable ==
    (Scanned /\ \E p \in Requested : Observers(p) = {})
        => (exception = "none" /\ (Returned => counts = <<>>))

\* --- C2 -------------------------------------------------------------------
ReasonOrder ==
    <<"duplicate", "anomalous_pair", "qc_fail", "secondary", "low_mapping_quality">>

Applies(reason, r) ==
    CASE reason = "duplicate" -> r.is_duplicate
      [] reason = "anomalous_pair" -> r.is_paired /\ ~r.is_proper_pair
      [] reason = "qc_fail" -> r.is_qcfail
      [] reason = "secondary" -> r.is_secondary
      [] reason = "low_mapping_quality" -> r.mapq < min_mq

FirstApplicable(r) ==
    LET hits == {i \in 1..Len(ReasonOrder) : Applies(ReasonOrder[i], r)} IN
    IF hits = {} THEN "accept"
    ELSE ReasonOrder[CHOOSE i \in hits : \A j \in hits : i <= j]

Inc(reason, tag) == IF reason = tag THEN 1 ELSE 0

\* C2: each fetched record increments exactly the counter of the first reason
\* that applies to it, in the order duplicate, anomalous_pair, qc_fail,
\* secondary, low_mapping_quality, and then writes nothing to the observer
\* maps; a record to which none applies is accepted and increments no counter.
C2_FirstReasonOnly ==
    [][ nfetched' = nfetched + 1 =>
          LET reason == FirstApplicable(alnread') IN
          /\ num_dups' = num_dups + Inc(reason, "duplicate")
          /\ num_anomalous' = num_anomalous + Inc(reason, "anomalous_pair")
          /\ num_qcfail' = num_qcfail + Inc(reason, "qc_fail")
          /\ num_secondary' = num_secondary + Inc(reason, "secondary")
          /\ num_below_mq_min' = num_below_mq_min + Inc(reason, "low_mapping_quality")
          /\ reason # "accept" => (pos_overlap' = pos_overlap /\ accepted' = accepted)
          /\ reason = "accept" => Len(accepted') = Len(accepted) + 1 ]_vars

\* A record that is both qc-fail and secondary and of low mapping quality has
\* been counted as qc-fail only.
C2_Witness ==
    /\ pc = "fetch" /\ nfetched = 1
    /\ ~alnread.is_duplicate /\ alnread.is_paired /\ alnread.is_proper_pair
    /\ alnread.is_qcfail /\ alnread.is_secondary /\ alnread.mapq < min_mq
    /\ counters = <<0, 0, 1, 0, 0>>
    /\ pos_overlap = <<>>

\* --- C3 -------------------------------------------------------------------
\* C3: at every point of the scan and after it, the five rejection counters
\* plus the number of accepted records add up to the number of records the
\* fetch has yielded so far.
C3_CountersAddUp ==
    num_dups + num_anomalous + num_qcfail + num_secondary + num_below_mq_min
        + Len(accepted) = nfetched

\* The scan is over with a rejected and an accepted record behind it.
C3_Witness ==
    /\ Returned
    /\ nfetched >= 2
    /\ Len(accepted) >= 1
    /\ num_qcfail + num_secondary >= 1

\* --- C4 -------------------------------------------------------------------
\* C4: once the intersection is taken, overlapping_all is exactly the set of
\* read ids with a recorded base at every requested position, so it is no
\* larger than the observer map of any requested position.
C4_OverlappingAllIsIntersection ==
    (pc = "count" \/ Returned) =>
        /\ overlapping_all =
               {rid \in UNION {Observers(p) : p \in Requested} :
                    \A p \in Requested : rid \in Observers(p)}
        /\ \A p \in Requested :
               Cardinality(overlapping_all) <= Cardinality(Observers(p))

\* One read id is at all positions and another is missing from one of them.
C4_Witness ==
    /\ Returned
    /\ overlapping_all # {}
    /\ \E p \in Requested : Observers(p) \ overlapping_all # {}
    /\ \E p \in Requested : Observers(p) = overlapping_all

\* --- C5 -------------------------------------------------------------------
\* C5: when joined_counts returns, the values of the table add up to the
\* number of read ids in overlapping_all, each key's count being the number
\* of those read ids whose joint key it is.
C5_CountsSumToOverlap ==
    Returned =>
        /\ SumOver(counts, DOMAIN counts) = Cardinality(overlapping_all)
        /\ DOMAIN counts = {KeyOf(rid) : rid \in overlapping_all}
        /\ \A key \in DOMAIN counts :
               counts[key] = Cardinality({rid \in overlapping_all : KeyOf(rid) = key})

\* Two logical reads share one joint key.
C5_Witness ==
    /\ Returned
    /\ Cardinality(overlapping_all) = 2
    /\ \E key \in DOMAIN counts : counts[key] = 2

\* --- C6 -------------------------------------------------------------------
\* C6: every key of the returned table is as long as the request, and its
\* i-th character is the base recorded at the i-th position of the request,
\* as the caller ordered it, for a read id of overlapping_all.
C6_KeysFollowRequestOrder ==
    Returned =>
        \A key \in DOMAIN counts :
            /\ Len(key) = Len(positions)
            /\ \E rid \in overlapping_all :
                   \A i \in 1..Len(positions) :
                       /\ rid \in Observers(positions[i])
                       /\ key[i] = pos_overlap[positions[i]][rid]

\* A request in descending coordinate order whose key differs from the key
\* in ascending order.
C6_Witness ==
    /\ Returned
    /\ Len(positions) = 2 /\ positions[1] > positions[2]
    /\ \E key \in DOMAIN counts : key[1] # key[2]

\* --- C7 -------------------------------------------------------------------
\* Records i and j are the only accepted records of one logical read, and
\* each requested position is shown by exactly one of them.
MatesSplit(i, j) ==
    /\ i \in Named /\ j \in Named /\ i # j
    /\ LogicalId(accepted[i].qname) = LogicalId(accepted[j].qname)
    /\ \A k \in Named \ {i, j} :
           LogicalId(accepted[k].qname) # LogicalId(accepted[i].qname)
    /\ \A p \in Requested : Shows(accepted[i], p) # Shows(accepted[j], p)
    /\ \E p \in Requested : Shows(accepted[i], p)
    /\ \E p \in Requested : Shows(accepted[j], p)

MatesKey(i, j) ==
    [n \in 1..Len(positions) |->
        IF Shows(accepted[i], positions[n])
        THEN ShownBase(accepted[i], positions[n])
        ELSE ShownBase(accepted[j], positions[n])]

\* C7: two accepted records that derive the same read id and between them
\* cover the requested positions, each position by one of them, are one
\* logical read: the id is in overlapping_all and is counted once, under the
\* key made of both mates' bases, whichever mate came first.
C7_MatesAreOneRead ==
    Returned =>
        \A i, j \in 1..Len(accepted) :
            MatesSplit(i, j) =>
                LET rid == LogicalId(accepted[i].qname) IN
                /\ rid \in overlapping_all
                /\ KeyOf(rid) = MatesKey(i, j)
                /\ MatesKey(i, j) \in DOMAIN counts
                /\ counts[MatesKey(i, j)] =
                       Cardinality({x \in overlapping_all : KeyOf(x) = MatesKey(i, j)})

\* Mate 2 came first in the stream and the pair was counted.
C7_Witness ==
    /\ Returned
    /\ Len(accepted) = 2
    /\ MatesSplit(1, 2)
    /\ accepted[1].qname = <<"r", "/", "2">>
    /\ accepted[2].qname = <<"r", "/", "1">>
    /\ SumOver(counts, DOMAIN counts) = 1

\* --- C8 -------------------------------------------------------------------
\* C8 (as claimed): the derivation of the read id fails for no accepted
\* record, and every accepted record is recorded under the logical id of its
\* name at each requested position it shows.
C8_DerivationNeverFails ==
    /\ exception # "IndexError"
    /\ \A k \in 1..Len(accepted) : \A p \in Requested :
           Shows(accepted[k], p) => LogicalId(accepted[k].qname) \in Observers(p)

\* --- C9 -------------------------------------------------------------------
\* C9: a base written twice for one read id at one position raises nothing
\* and the later record's base stays; the read is still counted once.
C9_LaterWriteWins ==
    /\ \A p \in Requested :
           /\ Observers(p) = {LogicalId(accepted[k].qname) :
                                  k \in {n \in Named : Shows(accepted[n], p)}}
           /\ \A rid \in Observers(p) :
                  pos_overlap[p][rid] = ShownBase(accepted[MaxOf(Writers(rid, p))], p)
    /\ exception = "IndexError" => Len(accepted[Len(accepted)].qname) < 2
    /\ exception = "KeyError" => \E p \in Requested : Observers(p) = {}
    /\ Returned =>
           \A rid \in overlapping_all :
               (\E p \in Requested : Cardinality(Writers(rid, p)) >= 2) =>
                   /\ KeyOf(rid) \in DOMAIN counts
                   /\ counts[KeyOf(rid)] =
                          Cardinality({x \in overlapping_all : KeyOf(x) = KeyOf(rid)})
                   /\ SumOver(counts, DOMAIN counts) = Cardinality(overlapping_all)

\* Two records of one read wrote different bases at one position, and the
\* read was counted.
C9_Witness ==
    /\ Returned
    /\ \E rid \in overlapping_all : \E p \in Requested :
           \E i, j \in Writers(rid, p) :
               i < j /\ ShownBase(accepted[i], p) # ShownBase(accepted[j], p)

\* --- C10 ------------------------------------------------------------------
\* The request as the caller gave it is invalid: fewer than two positions,
\* or a position below 1 (one-based) / below 0 (zero-based).
InvalidRequest ==
    \/ Len(request) < 2
    \/ \E i \in 1..Len(request) : request[i] < (IF entry = "main" THEN 1 ELSE 0)

\* C10: an invalid request is turned down before any record is fetched and
\* before the observer maps exist; no table is produced, and the command
\* line ends with exit code 1.
C10_InvalidRequestRejected ==
    InvalidRequest =>
        /\ nfetched = 0 /\ pos_overlap = <<>> /\ counts = <<>>
        /\ pc \notin {"fetch", "count", "return"}
        /\ entry = "main" => (pc = "main" \/ (pc = "exit" /\ exit_code = 1))
        /\ entry = "api" =>
               \/ pc = "joined_counts"
               \/ pc = "raised" /\ exception = "AssertionError"

\* The command line was given two positions, one of them 0, and has exited
\* with code 1.
C10_Witness ==
    /\ entry = "main" /\ bam_exists
    /\ Len(request) = 2
    /\ \E i \in 1..2 : request[i] = 0
    /\ pc = "exit" /\ exit_code = 1

\* --- C11 ------------------------------------------------------------------
\* The aligned pairs of rec that carry reference position pos together with a
\* query offset.
PairsAt(rec, pos) ==
    {i \in 1..Len(rec.aligned_pairs) :
        rec.aligned_pairs[i][2] = pos /\ rec.aligned_pairs[i][1] # None}

\* C11: the step that takes in an accepted record records, at each requested
\* position p for which the record has an aligned pair (q, p) with both
\* offsets, the query base at offset q, offsets 0 included; at a requested
\* position for which it has no such pair (a deletion there, or no pair at
\* all) it records nothing, so the step leaves that position's observer map
\* as it was.
C11_BaseOfAlignedPair ==
    [][ (Len(accepted') = Len(accepted) + 1
            /\ Len(accepted'[Len(accepted')].qname) >= 2) =>
          LET rec == accepted'[Len(accepted')]
              rid == LogicalId(rec.qname)
          IN  \A p \in Requested :
                  IF PairsAt(rec, p) # {}
                  THEN /\ p \in DOMAIN pos_overlap'
                       /\ rid \in DOMAIN pos_overlap'[p]
                       /\ \E i \in PairsAt(rec, p) :
                              pos_overlap'[p][rid] =
                                  rec.query[rec.aligned_pairs[i][1] + 1]
                  ELSE /\ (p \in DOMAIN pos_overlap') = (p \in DOMAIN pos_overlap)
                       /\ p \in DOMAIN pos_overlap =>
                              pos_overlap'[p] = pos_overlap[p] ]_vars

\* A single accepted record with the pair (0, 0) and a deletion at the
\* requested position 1: its base at query offset 0 is recorded at reference
\* position 0, and it is no observer of position 1.
C11_Witness ==
    /\ positions = <<0, 1>>
    /\ Len(accepted) = 1
    /\ accepted[1].qname = <<"r", "1">>
    /\ accepted[1].aligned_pairs = << <<0, 0>>, <<None, 1>>, <<1, 2>> >>
    /\ 0 \in DOMAIN pos_overlap
    /\ pos_overlap[0][<<"r", "1">>] = accepted[1].query[1]
    /\ Observers(1) = {}
====
